---- MODULE Spec2Model ----
(***************************************************************************)
(* Model of veriksson/pods: a registry of podcast feeds (pods) refreshed   *)
(* by a scheduler goroutine and by /forceupdate requests, and read by the  *)
(* index handler, all under one sync.Mutex (src/main.go; the older         *)
(* iteration in src/unnamed/part_000 has the same structure).              *)
(*                                                                         *)
(* Go strings are modelled as sequences of naturals (their bytes), so that *)
(* the byte-wise lexicographic comparison of the sort is computed as Go    *)
(* computes it.  A nil slice and an empty slice are both <<>>: len, range  *)
(* and sort treat them alike.                                              *)
(***************************************************************************)
EXTENDS Integers, Sequences, FiniteSets, TLC

\* ------------------------------------------------------------------ bounds
\* Number of timer ticks the environment delivers.
MaxTicks == 1
\* Number of /forceupdate requests the environment sends.
MaxRequests == 1
\* Clock readings per minute (time.Now() is finer than the minute that
\* index() prints).
TicksPerMinute == 2

\* Number of calls of enqueue the loggers make.
MaxLogs == 53
\* Episode entries on the scraped landing page.
MaxEntries == 3
\* Refreshes of the pod taken on its own.
MaxRefreshes == 2

\* --------------------------------------------------------- program constants
\* l > 10 => l = 10 in RssParser.URLs
MaxEpisodes == 10
\* m: 50 in newlogger: the queue's limit q.m
QueueM == 50

\* ------------------------------------------------------------- identities
\* Two of the sources registered by main(); every pod is built the same way.
Pods == {"kodsnack", "go time"}
Sched == "sched"
Handlers == {"h1"}
Readers == {"r1"}
Updaters == {Sched} \cup Handlers
Free == "free"
NoPod == "nopod"

\* ------------------------------------------------------------- Go strings
Min(a, b) == IF a < b THEN a ELSE b

\* a > b on Go strings: byte-wise lexicographic, a proper prefix is smaller.
RECURSIVE StrGreater(_, _)
StrGreater(a, b) ==
    IF a = <<>> THEN FALSE
    ELSE IF b = <<>> THEN TRUE
    ELSE IF Head(a) # Head(b) THEN Head(a) > Head(b)
    ELSE StrGreater(Tail(a), Tail(b))

\* The decimal digits of a day number below 100, as a title ("9", "15").
Digits(n) == IF n < 10 THEN <<n>> ELSE <<n \div 10, n % 10>>
\* The same, zero padded to two digits ("09", "15").
Padded(n) == <<n \div 10, n % 10>>

\* ------------------------------------------------------ upstream documents
\* What a fetch of a feed can give: three kinds of failure, or a document.
\* pubDate is the <pubDate> of the item in the document (0: none); RssItem
\* has no field for it, so xml.Unmarshal drops it.
Item(t, u, d) == [title |-> t, subtitle |-> <<>>, url |-> u, pubDate |-> d]

Failures == {"transport", "body", "xml"}
Documents == {"empty", "fifteen", "padded", "dup", "noenc"}
Responses == Failures \cup Documents

\* Each pod has its own feed URL, so its own upstream: what the server behind
\* each registered URL answers over time.
Feeds(p) ==
    IF p = "kodsnack" THEN {"transport", "fifteen", "dup"}
    ELSE {"body", "xml", "empty", "padded", "noenc"}

Items(d) ==
    CASE d = "empty"   -> <<>>
      [] d = "fifteen" -> [i \in 1..15 |-> Item(Digits(16 - i), <<16 - i>>, 16 - i)]
      [] d = "padded"  -> [i \in 1..15 |-> Item(Padded(16 - i), <<16 - i>>, 16 - i)]
      [] d = "dup"     -> [i \in 1..7 |-> Item(IF i = 7 THEN <<8>> ELSE <<7>>,
                                               <<i>>, 8 - i)]
      [] d = "noenc"   -> << Item(<<2>>, <<>>, 2), Item(<<1>>, <<5>>, 1) >>
      [] OTHER         -> <<>>

\* ------------------------------------------------------------------ parser
Episode(it) == [name |-> it.title, subtitle |-> it.subtitle, url |-> it.url]

\* URLs without the cut to 10 items.
URLsAll(d) ==
    IF d \in Failures THEN <<>>
    ELSE [i \in 1..Len(Items(d)) |-> Episode(Items(d)[i])]

\* URLs that keeps the last 10 items instead of the first 10.
URLsLastTen(d) ==
    IF d \in Failures THEN <<>>
    ELSE LET n == Len(Items(d))
             l == Min(n, MaxEpisodes)
         IN  [i \in 1..l |-> Episode(Items(d)[n - l + i])]

\* RssParser.URLs: nil on any failure, else the first 10 items projected.
URLs(d) ==
    IF d \in Failures THEN <<>>
    ELSE LET l == Min(Len(Items(d)), MaxEpisodes)
         IN  [i \in 1..l |-> Episode(Items(d)[i])]

\* -------------------------------------------------------------------- sort
\* The less function with the comparison the other way round.
LessAscending(a, b) == StrGreater(b.name, a.name)

\* The less function handed to sort.Slice.
Less(a, b) == StrGreater(a.name, b.name)

\* The releases of Go whose sort package the binary can be built with, by
\* what they do to a slice of at most 12 elements: "insertion" (Go 1.19 and
\* later: insertion sort alone) and "shell" (before Go 1.19: one pass of
\* Shell sort with gap 6, then insertion sort).  Neither sort.Slice nor
\* sort.Sort promises stability; each release is deterministic.
GoSorts == {"insertion", "shell"}

\* The inner loop of insertionSort: x moves left past every element it is
\* less than.
RECURSIVE InsertInto(_, _)
InsertInto(sorted, x) ==
    IF sorted = <<>> THEN <<x>>
    ELSE LET n == Len(sorted)
         IN  IF Less(x, sorted[n])
             THEN Append(InsertInto(SubSeq(sorted, 1, n - 1), x), sorted[n])
             ELSE Append(sorted, x)

RECURSIVE InsertionSortTo(_, _)
InsertionSortTo(eps, n) ==
    IF n = 0 THEN <<>> ELSE InsertInto(InsertionSortTo(eps, n - 1), eps[n])

InsertionSort(eps) == InsertionSortTo(eps, Len(eps))

\* for i := a + 6; i < b; i++ { if less(i, i-6) { swap(i, i-6) } }
RECURSIVE ShellPassTo(_, _)
ShellPassTo(eps, i) ==
    IF i <= 6 THEN eps
    ELSE LET e == ShellPassTo(eps, i - 1)
         IN  IF Less(e[i], e[i - 6])
             THEN [e EXCEPT ![i] = e[i - 6], ![i - 6] = e[i]]
             ELSE e

ShellPass(eps) == ShellPassTo(eps, Len(eps))

\* What the sort of release g makes of eps (at most 12 elements, as URLs
\* returns at most 10).
GoSort(g, eps) ==
    IF g = "shell" THEN InsertionSort(ShellPass(eps)) ELSE InsertionSort(eps)

\* -------------------------------------------------------------------- view
\* lastUpdate.Format("2006-01-02 15:04"): the reading cut to its minute.
Format(t) == t \div TicksPerMinute

\* TemplateEpisode with the two fields taken from each other's source.
TemplateEpisodeSwapped(e) == [Title |-> e.url, URL |-> e.name]

TemplateEpisode(e) == [Title |-> e.name, URL |-> e.url]

TemplatePod(name, pod) ==
    [Name |-> name,
     LastUpdate |-> Format(pod.lastUpdate),
     Episodes |-> [i \in 1..Len(pod.eps) |-> TemplateEpisode(pod.eps[i])]]

\* ------------------------------------------------------------------- state
VARIABLES
    m,          \* sync.Mutex m: its holder, or Free
    pods,       \* the registry: name -> [lastUpdate, eps]
    clock,      \* the last reading of time.Now()
    pc,         \* where each goroutine is
    todo,       \* update(): the pods its range loop has yet to visit
    cur,        \* update(): the pod whose Update() is running
    leps,       \* Pod.Update(): its local eps
    ticking,    \* sched(): time.Tick has been called
    tickc,      \* the ticker channel (capacity 1): ticks waiting in it
    fired,      \* ticks the timer has sent so far
    requests,   \* /forceupdate requests received so far
    out,        \* /forceupdate: what has been written to the response
    rest,       \* index(): the pods its range loop has yet to visit
    data,       \* index(): the snapshot it builds
    goSort,     \* the sort of the Go release the binary was built with
    runs,       \* history: how many times each caller's update() took m
    received,   \* history: ticks sched() has received from the channel
    served,     \* history: the response the last fetch of each pod got
    fetched,    \* history: how many times each pod's parser was called
    stamped,    \* history: how many times each pod's lastUpdate was written
    stored,     \* history: how many times each pod's eps was written
    seen,       \* history: per reader, (pod, stamped, stored) as it read them
    qs,         \* queue.s, the queue's own sync.Mutex: its holder, or Free
    ql,         \* queue.l, the list of logged strings, front first
    qpc,        \* where each goroutine using the queue is
    qn,         \* enqueue calls made so far
    spc,        \* scraping parser: where the parser call is
    entries,    \* scraping parser: per entry, whether its page has a media URL
    task,       \* scraping parser: where each entry's resolution is
    results,    \* scraping parser: what the collector has gathered
    returned,   \* scraping parser: the list the parser returned
    upstream,   \* a pod on its own: what its feed URL answers now
    podEps,     \* a pod on its own: Pod.eps
    refreshes   \* history: per Update() of that pod, the response and the eps stored

podVars == << m, pods, clock, pc, todo, cur, leps, ticking, tickc, fired,
              requests, out, rest, data, goSort, runs, received, served,
              fetched, stamped, stored, seen >>

updVars == << todo, cur, leps >>
envVars == << ticking, tickc, fired, requests, out >>
idxVars == << rest, data, seen >>
histVars == << served, fetched, stamped, stored >>
cntVars == << runs, received >>
\* What no step of the server changes.
queueVars == << qs, ql, qpc, qn >>
scrapeVars == << spc, entries, task, results, returned >>
refreshVars == << upstream, podEps, refreshes >>
auxVars == << goSort, queueVars, scrapeVars, refreshVars >>
\* What the steps of each part taken on its own leave alone.
exceptQueue == << podVars, scrapeVars, refreshVars >>
exceptScrape == << podVars, queueVars, refreshVars >>
exceptRefresh == << podVars, queueVars, scrapeVars >>

NoFetch == "nofetch"

\* sort.Slice(eps, ...) in the running binary.
SortSlice(eps) == GoSort(goSort, eps)

\* main(): every pod is registered with lastUpdate: time.Now() and no eps;
\* go sched() is about to call update(); no request has arrived.
\* Goroutines that log, and the handler of /logs.
Loggers == {"g1", "g2"}
LogReaders == {"l1"}

\* newlogger(): an empty list.
QueueInit ==
    /\ qs = Free
    /\ ql = <<>>
    /\ qpc = [g \in Loggers \cup LogReaders |-> "idle"]
    /\ qn = 0

\* The scraping parser before it is called.
ScrapeInit ==
    /\ spc = "idle"
    /\ entries = [i \in 1..MaxEntries |-> FALSE]
    /\ task = [i \in 1..MaxEntries |-> "none"]
    /\ results = <<>>
    /\ returned = <<>>

\* &Pod{...}: no eps; the feed's server has yet to come up.
RefreshInit ==
    /\ upstream = "transport"
    /\ podEps = <<>>
    /\ refreshes = <<>>

Init ==
    /\ QueueInit
    /\ ScrapeInit
    /\ RefreshInit
    /\ m = Free
    /\ pods = [p \in Pods |-> [lastUpdate |-> 0, eps |-> <<>>]]
    /\ clock = 0
    /\ pc = [g \in Updaters \cup Readers |-> IF g = Sched THEN "update" ELSE "idle"]
    /\ todo = [u \in Updaters |-> {}]
    /\ cur = [u \in Updaters |-> NoPod]
    /\ leps = [u \in Updaters |-> <<>>]
    /\ ticking = FALSE
    /\ tickc = 0
    /\ fired = 0
    /\ requests = 0
    /\ out = [h \in Handlers |-> <<>>]
    /\ rest = [r \in Readers |-> {}]
    /\ data = [r \in Readers |-> <<>>]
    /\ goSort \in GoSorts
    /\ runs = [u \in Updaters |-> 0]
    /\ received = 0
    /\ served = [p \in Pods |-> NoFetch]
    /\ fetched = [p \in Pods |-> 0]
    /\ stamped = [p \in Pods |-> 0]
    /\ stored = [p \in Pods |-> 0]
    /\ seen = [r \in Readers |-> {}]

\* ---------------------------------------------------------------- update()
\* update() that takes the registry without waiting for the mutex.
UpdateLockNoWait(u) ==
    /\ pc[u] = "update"
    /\ m' = u
    /\ todo' = [todo EXCEPT ![u] = Pods]
    /\ pc' = [pc EXCEPT ![u] = "range"]
    /\ UNCHANGED << pods, clock, cur, leps, envVars, idxVars, histVars >>
    /\ runs' = [runs EXCEPT ![u] = @ + 1]
    /\ UNCHANGED received
    /\ UNCHANGED auxVars

\* m.Lock() at the head of update().
UpdateLock(u) ==
    /\ pc[u] = "update"
    /\ m = Free
    /\ m' = u
    /\ todo' = [todo EXCEPT ![u] = Pods]
    /\ pc' = [pc EXCEPT ![u] = "range"]
    /\ UNCHANGED << pods, clock, cur, leps, envVars, idxVars, histVars >>
    /\ runs' = [runs EXCEPT ![u] = @ + 1]
    /\ UNCHANGED received
    /\ UNCHANGED auxVars

\* update() whose loop ends at the first pod whose fetch fails.
UpdateCallAbortOnFailure(u, p) ==
    /\ pc[u] = "range"
    /\ p \in todo[u]
    /\ \E d \in Feeds(p) :
          /\ leps' = [leps EXCEPT ![u] = URLs(d)]
          /\ served' = [served EXCEPT ![p] = d]
          /\ todo' = [todo EXCEPT ![u] = IF d \in Failures THEN {p} ELSE @]
    /\ fetched' = [fetched EXCEPT ![p] = @ + 1]
    /\ cur' = [cur EXCEPT ![u] = p]
    /\ pc' = [pc EXCEPT ![u] = "stamp"]
    /\ UNCHANGED << m, pods, clock, envVars, idxVars, stamped, stored >>
    /\ UNCHANGED cntVars
    /\ UNCHANGED auxVars

\* for _, pod := range pods { pod.Update() ...: the next pod, in the order
\* the map yields (any), and the first statement of Pod.Update:
\* eps := p.parser.URLs().
UpdateCall(u, p) ==
    /\ pc[u] = "range"
    /\ p \in todo[u]
    /\ \E d \in Feeds(p) :
          /\ leps' = [leps EXCEPT ![u] = URLs(d)]
          /\ served' = [served EXCEPT ![p] = d]
    /\ fetched' = [fetched EXCEPT ![p] = @ + 1]
    /\ cur' = [cur EXCEPT ![u] = p]
    /\ pc' = [pc EXCEPT ![u] = "stamp"]
    /\ UNCHANGED << m, pods, clock, todo, envVars, idxVars, stamped, stored >>
    /\ UNCHANGED cntVars
    /\ UNCHANGED auxVars

\* A parser call that never returns, in an update() that gives the mutex up
\* meanwhile.
UpdateHangUnlocked(u, p) ==
    /\ pc[u] = "range"
    /\ p \in todo[u]
    /\ fetched' = [fetched EXCEPT ![p] = @ + 1]
    /\ cur' = [cur EXCEPT ![u] = p]
    /\ pc' = [pc EXCEPT ![u] = "hung"]
    /\ m' = Free
    /\ UNCHANGED << pods, clock, todo, leps, envVars, idxVars, served,
                    stamped, stored >>
    /\ UNCHANGED cntVars
    /\ UNCHANGED auxVars

\* pod.Update() whose p.parser.URLs() never returns: http.Get is given no
\* timeout, so a server that accepts the request and never answers holds
\* the goroutine for good.
UpdateHang(u, p) ==
    /\ pc[u] = "range"
    /\ p \in todo[u]
    /\ fetched' = [fetched EXCEPT ![p] = @ + 1]
    /\ cur' = [cur EXCEPT ![u] = p]
    /\ pc' = [pc EXCEPT ![u] = "hung"]
    /\ UNCHANGED << m, pods, clock, todo, leps, envVars, idxVars, served,
                    stamped, stored >>
    /\ UNCHANGED cntVars
    /\ UNCHANGED auxVars

\* p.lastUpdate = time.Now()
UpdateStamp(u) ==
    /\ pc[u] = "stamp"
    /\ clock' = clock + 1
    /\ pods' = [pods EXCEPT ![cur[u]].lastUpdate = clock + 1]
    /\ stamped' = [stamped EXCEPT ![cur[u]] = @ + 1]
    /\ pc' = [pc EXCEPT ![u] = "store"]
    /\ UNCHANGED << m, updVars, envVars, idxVars, served, fetched, stored >>
    /\ UNCHANGED cntVars
    /\ UNCHANGED auxVars

\* Pod.Update with the mutex released after each pod instead of after the loop.
UpdateStoreLockPerPod(u) ==
    /\ pc[u] = "store"
    /\ pods' = [pods EXCEPT ![cur[u]].eps = SortSlice(leps[u])]
    /\ stored' = [stored EXCEPT ![cur[u]] = @ + 1]
    /\ todo' = [todo EXCEPT ![u] = @ \ {cur[u]}]
    /\ cur' = [cur EXCEPT ![u] = NoPod]
    /\ leps' = [leps EXCEPT ![u] = <<>>]
    /\ pc' = [pc EXCEPT ![u] = "range"]
    /\ m' = Free
    /\ UNCHANGED << clock, envVars, idxVars, served, fetched, stamped >>
    /\ UNCHANGED cntVars
    /\ UNCHANGED auxVars

\* Pod.Update that keeps the stored episodes when the parser gave none.
UpdateStoreKeepStale(u) ==
    /\ pc[u] = "store"
    /\ pods' = [pods EXCEPT ![cur[u]].eps =
                   IF leps[u] = <<>> THEN @ ELSE SortSlice(leps[u])]
    /\ stored' = [stored EXCEPT ![cur[u]] = @ + 1]
    /\ todo' = [todo EXCEPT ![u] = @ \ {cur[u]}]
    /\ cur' = [cur EXCEPT ![u] = NoPod]
    /\ leps' = [leps EXCEPT ![u] = <<>>]
    /\ pc' = [pc EXCEPT ![u] = "range"]
    /\ UNCHANGED << m, clock, envVars, idxVars, served, fetched, stamped >>
    /\ UNCHANGED cntVars
    /\ UNCHANGED auxVars

\* update() whose loop does not move on: the pod stays to be visited.
UpdateStoreRevisit(u) ==
    /\ pc[u] = "store"
    /\ pods' = [pods EXCEPT ![cur[u]].eps = SortSlice(leps[u])]
    /\ stored' = [stored EXCEPT ![cur[u]] = @ + 1]
    /\ cur' = [cur EXCEPT ![u] = NoPod]
    /\ leps' = [leps EXCEPT ![u] = <<>>]
    /\ pc' = [pc EXCEPT ![u] = "range"]
    /\ UNCHANGED << m, clock, todo, envVars, idxVars, served, fetched, stamped >>
    /\ UNCHANGED cntVars
    /\ UNCHANGED auxVars

\* Pod.Update that unregisters a pod whose parser gave nothing.
UpdateStoreDropFailed(u) ==
    /\ pc[u] = "store"
    /\ pods' = IF leps[u] = <<>>
               THEN [q \in DOMAIN pods \ {cur[u]} |-> pods[q]]
               ELSE [pods EXCEPT ![cur[u]].eps = SortSlice(leps[u])]
    /\ stored' = [stored EXCEPT ![cur[u]] = @ + 1]
    /\ todo' = [todo EXCEPT ![u] = @ \ {cur[u]}]
    /\ cur' = [cur EXCEPT ![u] = NoPod]
    /\ leps' = [leps EXCEPT ![u] = <<>>]
    /\ pc' = [pc EXCEPT ![u] = "range"]
    /\ UNCHANGED << m, clock, envVars, idxVars, served, fetched, stamped >>
    /\ UNCHANGED cntVars
    /\ UNCHANGED auxVars

\* sort.Slice(eps, ...); p.eps = eps; and back to the range loop.
UpdateStore(u) ==
    /\ pc[u] = "store"
    /\ pods' = [pods EXCEPT ![cur[u]].eps = SortSlice(leps[u])]
    /\ stored' = [stored EXCEPT ![cur[u]] = @ + 1]
    /\ todo' = [todo EXCEPT ![u] = @ \ {cur[u]}]
    /\ cur' = [cur EXCEPT ![u] = NoPod]
    /\ leps' = [leps EXCEPT ![u] = <<>>]
    /\ pc' = [pc EXCEPT ![u] = "range"]
    /\ UNCHANGED << m, clock, envVars, idxVars, served, fetched, stamped >>
    /\ UNCHANGED cntVars
    /\ UNCHANGED auxVars

\* update() that unlocks and returns after the first pod.
UpdateUnlockEarly(u) ==
    /\ pc[u] = "range"
    /\ todo[u] # Pods
    /\ m' = Free
    /\ pc' = [pc EXCEPT ![u] = IF u = Sched
                                THEN (IF ticking THEN "recv" ELSE "tick")
                                ELSE "done"]
    /\ UNCHANGED << pods, clock, updVars, envVars, idxVars, histVars >>
    /\ UNCHANGED cntVars
    /\ UNCHANGED auxVars

\* update() that returns without m.Unlock().
UpdateUnlockForgotten(u) ==
    /\ pc[u] = "range"
    /\ todo[u] = {}
    /\ pc' = [pc EXCEPT ![u] = IF u = Sched
                                THEN (IF ticking THEN "recv" ELSE "tick")
                                ELSE "done"]
    /\ UNCHANGED << m, pods, clock, updVars, envVars, idxVars, histVars >>
    /\ UNCHANGED cntVars
    /\ UNCHANGED auxVars

\* The range loop is over: m.Unlock(), and update() returns to its caller.
UpdateUnlock(u) ==
    /\ pc[u] = "range"
    /\ todo[u] = {}
    /\ m' = Free
    /\ pc' = [pc EXCEPT ![u] = IF u = Sched
                                THEN (IF ticking THEN "recv" ELSE "tick")
                                ELSE "done"]
    /\ UNCHANGED << pods, clock, updVars, envVars, idxVars, histVars >>
    /\ UNCHANGED cntVars
    /\ UNCHANGED auxVars

\* ----------------------------------------------------------------- sched()
\* c := time.Tick(1 * time.Hour), after the first update().
SchedTick ==
    /\ pc[Sched] = "tick"
    /\ ticking' = TRUE
    /\ pc' = [pc EXCEPT ![Sched] = "recv"]
    /\ UNCHANGED << m, pods, clock, updVars, tickc, fired, requests, out,
                    idxVars, histVars >>
    /\ UNCHANGED cntVars
    /\ UNCHANGED auxVars

\* The runtime timer sends a tick; the channel holds one, a tick that finds
\* it full is dropped.
TimerFire ==
    /\ ticking
    /\ fired < MaxTicks
    /\ fired' = fired + 1
    /\ tickc' = 1
    /\ UNCHANGED << m, pods, clock, pc, updVars, ticking, requests, out,
                    idxVars, histVars >>
    /\ UNCHANGED cntVars
    /\ UNCHANGED auxVars

\* sched() that loops without waiting for a tick.
SchedRecvNoWait ==
    /\ pc[Sched] = "recv"
    /\ tickc' = 0
    /\ pc' = [pc EXCEPT ![Sched] = "update"]
    /\ UNCHANGED << m, pods, clock, updVars, ticking, fired, requests, out,
                    idxVars, histVars >>
    /\ received' = received + tickc
    /\ UNCHANGED runs
    /\ UNCHANGED auxVars

\* for range c { update() }
SchedRecv ==
    /\ pc[Sched] = "recv"
    /\ tickc = 1
    /\ tickc' = 0
    /\ pc' = [pc EXCEPT ![Sched] = "update"]
    /\ UNCHANGED << m, pods, clock, updVars, ticking, fired, requests, out,
                    idxVars, histVars >>
    /\ received' = received + 1
    /\ UNCHANGED runs
    /\ UNCHANGED auxVars

\* ---------------------------------------------------------- /forceupdate
\* A request arrives: the padding and "Starting update... " are written.
ForceRequest(h) ==
    /\ pc[h] = "idle"
    /\ requests < MaxRequests
    /\ requests' = requests + 1
    /\ out' = [out EXCEPT ![h] = <<"pad", "Starting update... ">>]
    /\ pc' = [pc EXCEPT ![h] = "update"]
    /\ UNCHANGED << m, pods, clock, updVars, ticking, tickc, fired,
                    idxVars, histVars >>
    /\ UNCHANGED cntVars
    /\ UNCHANGED auxVars

\* update() has returned: writeflush("Done"), and the handler returns.
ForceDone(h) ==
    /\ pc[h] = "done"
    /\ out' = [out EXCEPT ![h] = Append(@, "Done")]
    /\ pc' = [pc EXCEPT ![h] = "idle"]
    /\ UNCHANGED << m, pods, clock, updVars, ticking, tickc, fired, requests,
                    idxVars, histVars >>
    /\ UNCHANGED cntVars
    /\ UNCHANGED auxVars

\* ----------------------------------------------------------------- index()
\* A request for "/": the template parses (it is a constant), data is nil.
IndexRequest(r) ==
    /\ pc[r] = "idle"
    /\ data' = [data EXCEPT ![r] = <<>>]
    /\ seen' = [seen EXCEPT ![r] = {}]
    /\ pc' = [pc EXCEPT ![r] = "lock"]
    /\ UNCHANGED << m, pods, clock, updVars, envVars, rest, histVars >>
    /\ UNCHANGED cntVars
    /\ UNCHANGED auxVars

\* index() that reads the registry without taking the mutex.
IndexLockNoWait(r) ==
    /\ pc[r] = "lock"
    /\ rest' = [rest EXCEPT ![r] = Pods]
    /\ pc' = [pc EXCEPT ![r] = "range"]
    /\ UNCHANGED << m, pods, clock, updVars, envVars, data, seen, histVars >>
    /\ UNCHANGED cntVars
    /\ UNCHANGED auxVars

\* m.Lock()
IndexLock(r) ==
    /\ pc[r] = "lock"
    /\ m = Free
    /\ m' = r
    /\ rest' = [rest EXCEPT ![r] = Pods]
    /\ pc' = [pc EXCEPT ![r] = "range"]
    /\ UNCHANGED << pods, clock, updVars, envVars, data, seen, histVars >>
    /\ UNCHANGED cntVars
    /\ UNCHANGED auxVars

\* One turn of for name, pod := range pods: a TemplatePod is appended.
IndexRead(r, p) ==
    /\ pc[r] = "range"
    /\ p \in rest[r]
    /\ data' = [data EXCEPT ![r] = Append(@, TemplatePod(p, pods[p]))]
    /\ seen' = [seen EXCEPT ![r] = @ \cup
                   {[pod |-> p, stamped |-> stamped[p], stored |-> stored[p]]}]
    /\ rest' = [rest EXCEPT ![r] = @ \ {p}]
    /\ UNCHANGED << m, pods, clock, pc, updVars, envVars, histVars >>
    /\ UNCHANGED cntVars
    /\ UNCHANGED auxVars

\* The range loop is over: m.Unlock(); t.Execute(w, data) renders the
\* snapshot (it touches nothing shared) and the handler returns: data is gone.
IndexUnlock(r) ==
    /\ pc[r] = "range"
    /\ rest[r] = {}
    /\ m' = Free
    /\ data' = [data EXCEPT ![r] = <<>>]
    /\ seen' = [seen EXCEPT ![r] = {}]
    /\ pc' = [pc EXCEPT ![r] = "idle"]
    /\ UNCHANGED << pods, clock, updVars, envVars, rest, histVars >>
    /\ UNCHANGED cntVars
    /\ UNCHANGED auxVars

\* -------------------------------------------------------------------- spec
Next ==
    \/ \E u \in Updaters : UpdateLock(u)
    \/ \E u \in Updaters : \E p \in Pods : UpdateCall(u, p)
    \/ \E u \in Updaters : \E p \in Pods : UpdateHang(u, p)
    \/ \E u \in Updaters : UpdateStamp(u)
    \/ \E u \in Updaters : UpdateStore(u)
    \/ \E u \in Updaters : UpdateUnlock(u)
    \/ SchedTick
    \/ TimerFire
    \/ SchedRecv
    \/ \E h \in Handlers : ForceRequest(h)
    \/ \E h \in Handlers : ForceDone(h)
    \/ \E r \in Readers : IndexRequest(r)
    \/ \E r \in Readers : IndexLock(r)
    \/ \E r \in Readers : \E p \in Pods : IndexRead(r, p)
    \/ \E r \in Readers : IndexUnlock(r)

vars == << podVars, queueVars, scrapeVars, refreshVars >>

Spec == Init /\ [][Next]_vars

\* The responses drawn when progress is checked: what a feed holds has no
\* part in who waits for whom.
ProgressFeeds == {"transport", "xml", "noenc"}

\* The server when every parser call returns.
NextReturning ==
    \/ \E u \in Updaters : UpdateLock(u)
    \/ \E u \in Updaters : \E p \in Pods :
          UpdateCall(u, p) /\ served'[p] \in ProgressFeeds
    \/ \E u \in Updaters : UpdateStamp(u)
    \/ \E u \in Updaters : UpdateStore(u)
    \/ \E u \in Updaters : UpdateUnlock(u)
    \/ SchedTick
    \/ TimerFire
    \/ SchedRecv
    \/ \E h \in Handlers : ForceRequest(h)
    \/ \E h \in Handlers : ForceDone(h)
    \/ \E r \in Readers : IndexRequest(r)
    \/ \E r \in Readers : IndexLock(r)
    \/ \E r \in Readers : \E p \in Pods : IndexRead(r, p)
    \/ \E r \in Readers : IndexUnlock(r)

\* Every goroutine that can take a step of its own takes it (the Go
\* scheduler runs every runnable goroutine), and a goroutine waiting at
\* m.Lock() gets m if m is free again and again (fair acquisition).  Ticks
\* and requests come when the environment sends them.
Fairness ==
    /\ \A u \in Updaters :
          /\ SF_vars(UpdateLock(u))
          /\ WF_vars(\E p \in Pods : UpdateCall(u, p))
          /\ WF_vars(UpdateStamp(u))
          /\ WF_vars(UpdateStore(u))
          /\ WF_vars(UpdateUnlock(u))
    /\ WF_vars(SchedTick)
    /\ WF_vars(SchedRecv)
    /\ \A h \in Handlers : WF_vars(ForceDone(h))
    /\ \A r \in Readers :
          /\ SF_vars(IndexLock(r))
          /\ WF_vars(\E p \in Pods : IndexRead(r, p))
          /\ WF_vars(IndexUnlock(r))

FairSpec == Init /\ [][NextReturning]_vars /\ Fairness

\* ------------------------------------------------------------------- queue
\* The log queue (type queue), taken on its own: goroutines call enqueue,
\* the /logs handler calls loop.  What the strings say plays no part: an
\* entry is named by its place in the order of the PushBacks.

\* A goroutine calls q.enqueue(s).
Enqueue(g) ==
    /\ qpc[g] = "idle"
    /\ qn < MaxLogs
    /\ qn' = qn + 1
    /\ qpc' = [qpc EXCEPT ![g] = "enqLock"]
    /\ UNCHANGED << qs, ql, exceptQueue >>

\* q.s.Lock() in enqueue.
EnqueueLock(g) ==
    /\ qpc[g] = "enqLock"
    /\ qs = Free
    /\ qs' = g
    /\ qpc' = [qpc EXCEPT ![g] = "enqLoop"]
    /\ UNCHANGED << ql, qn, exceptQueue >>

\* for q.l.Len() > q.m { q.dequeue() }: the loop condition holds and
\* dequeue is called; its first statement is q.s.Lock(), on the mutex the
\* caller holds.  sync.Mutex is not reentrant: the rest of dequeue (Front,
\* Remove, the deferred Unlock) runs only once q.s is free.
EnqueueDequeue(g) ==
    /\ qpc[g] = "enqLoop"
    /\ Len(ql) > QueueM
    /\ qpc' = [qpc EXCEPT ![g] = "deqLock"]
    /\ UNCHANGED << qs, ql, qn, exceptQueue >>

\* The loop condition fails: q.l.PushBack(s), the deferred q.s.Unlock(), and
\* enqueue returns.
EnqueuePush(g) ==
    /\ qpc[g] = "enqLoop"
    /\ ~(Len(ql) > QueueM)
    /\ ql' = Append(ql, Len(ql) + 1)
    /\ qs' = Free
    /\ qpc' = [qpc EXCEPT ![g] = "idle"]
    /\ UNCHANGED << qn, exceptQueue >>

\* A request for /logs: the handler calls applog.queue.loop.
LogsRequest(l) ==
    /\ qpc[l] = "idle"
    /\ qpc' = [qpc EXCEPT ![l] = "loopLock"]
    /\ UNCHANGED << qs, ql, qn, exceptQueue >>

\* q.s.Lock() in loop.
LoopLock(l) ==
    /\ qpc[l] = "loopLock"
    /\ qs = Free
    /\ qs' = l
    /\ qpc' = [qpc EXCEPT ![l] = "loop"]
    /\ UNCHANGED << ql, qn, exceptQueue >>

\* The list is walked from the back, f is called on each string, and the
\* deferred q.s.Unlock() runs.
LoopUnlock(l) ==
    /\ qpc[l] = "loop"
    /\ qs' = Free
    /\ qpc' = [qpc EXCEPT ![l] = "idle"]
    /\ UNCHANGED << ql, qn, exceptQueue >>

QueueNext ==
    \/ \E g \in Loggers : Enqueue(g)
    \/ \E g \in Loggers : EnqueueLock(g)
    \/ \E g \in Loggers : EnqueueDequeue(g)
    \/ \E g \in Loggers : EnqueuePush(g)
    \/ \E l \in LogReaders : LogsRequest(l)
    \/ \E l \in LogReaders : LoopLock(l)
    \/ \E l \in LogReaders : LoopUnlock(l)

QueueSpec == Init /\ [][QueueNext]_vars

\* --------------------------------------------------------- scraping parser
\* The parser variant that scrapes a landing page and resolves each
\* episode's media URL on that episode's own page, one concurrent task per
\* entry; a collector gathers what the tasks send while the parser waits for
\* them all.

\* The media URL found on the page of entry i.
MediaURL(i) == << i >>

\* The parser is called: it fetches the landing page, decodes the embedded
\* block into its entries, launches one resolution per entry and waits.
\* Whether an entry's page holds a link matching the pattern is up to the site.
ScrapeStart ==
    /\ spc = "idle"
    /\ entries' \in [1..MaxEntries -> BOOLEAN]
    /\ task' = [i \in 1..MaxEntries |-> "fetch"]
    /\ spc' = "wait"
    /\ UNCHANGED << results, returned, exceptScrape >>

\* A resolution fetches its episode's page and matches the pattern: with a
\* match it has an Episode to send, without one it is finished (extraction
\* error: logged, no Episode).
Resolve(i) ==
    /\ task[i] = "fetch"
    /\ task' = [task EXCEPT ![i] = IF entries[i] THEN "send" ELSE "done"]
    /\ UNCHANGED << spc, entries, results, returned, exceptScrape >>

\* A resolution hands its Episode to the collector over the completion
\* channel, the collector appends it, and the resolution is complete.
Collect(i) ==
    /\ task[i] = "send"
    /\ results' = Append(results, [name |-> << i >>, subtitle |-> <<>>,
                                   url |-> MediaURL(i)])
    /\ task' = [task EXCEPT ![i] = "done"]
    /\ UNCHANGED << spc, entries, returned, exceptScrape >>

\* The parser returning whatever has been collected, without the wait.
ScrapeReturnNoWait ==
    /\ spc = "wait"
    /\ returned' = results
    /\ spc' = "returned"
    /\ UNCHANGED << entries, task, results, exceptScrape >>

\* The wait barrier passes once every resolution is complete; the parser
\* returns the combined list.
ScrapeReturn ==
    /\ spc = "wait"
    /\ \A i \in 1..MaxEntries : task[i] = "done"
    /\ returned' = results
    /\ spc' = "returned"
    /\ UNCHANGED << entries, task, results, exceptScrape >>

ScrapeNext ==
    \/ ScrapeStart
    \/ \E i \in 1..MaxEntries : Resolve(i)
    \/ \E i \in 1..MaxEntries : Collect(i)
    \/ ScrapeReturn

ScrapeSpec == Init /\ [][ScrapeNext]_vars

\* ----------------------------------------------------------- one pod alone
\* A single Pod whose Update() is called again and again, as update() does
\* under m, while its feed's server answers what it likes.

\* The server behind the pod's URL changes its answer.
FeedChange ==
    /\ \E d \in Responses \ {upstream} : upstream' = d
    /\ UNCHANGED << podEps, refreshes, exceptRefresh >>

\* Pod.Update that adds the fetched episodes to the ones it has.
PodUpdateAppend ==
    /\ Len(refreshes) < MaxRefreshes
    /\ podEps' = SortSlice(podEps \o URLs(upstream))
    /\ refreshes' = Append(refreshes, [doc |-> upstream, eps |-> podEps'])
    /\ UNCHANGED << upstream, exceptRefresh >>

\* Pod.Update: eps := p.parser.URLs(p.url); sort.Slice(eps, ...); p.eps = eps.
PodUpdate ==
    /\ Len(refreshes) < MaxRefreshes
    /\ podEps' = SortSlice(URLs(upstream))
    /\ refreshes' = Append(refreshes, [doc |-> upstream, eps |-> podEps'])
    /\ UNCHANGED << upstream, exceptRefresh >>

RefreshNext ==
    \/ FeedChange
    \/ PodUpdate

RefreshSpec == Init /\ [][RefreshNext]_vars

\* ================================================================== claims
\* u is between the m.Lock() and the m.Unlock() of update().
InUpdate(u) == pc[u] \in {"range", "hung", "stamp", "store"}
\* r is between the m.Lock() and the m.Unlock() of index().
InIndex(r) == pc[r] = "range"
\* r holds a snapshot with a record for every pod.
Complete(r) == InIndex(r) /\ rest[r] = {}

\* C1: at most one execution of update() is between its lock acquisition and
\* its lock release; two refresh cycles never overlap.
C1_MutualExclusion ==
    /\ Cardinality({u \in Updaters : InUpdate(u)}) <= 1
    /\ \A u \in Updaters : InUpdate(u) => m = u

\* A /forceupdate pass is writing a pod while the scheduler, having received
\* a tick, waits at m.Lock().
C1_Witness ==
    /\ pc["h1"] = "store"
    /\ pc[Sched] = "update"
    /\ fired = 1

\* C2: every record of a snapshot pairs a lastUpdate and an episode list
\* written by the same Pod.Update call (or both from startup): the pod's
\* lastUpdate and its eps had been written the same number of times when
\* index() read them.
C2_SourceAtomic ==
    \A r \in Readers : \A s \in seen[r] : s.stamped = s.stored

\* A complete snapshot of pods that have been refreshed, one of them with
\* episodes, taken by a reader that had to read after a refresh.
C2_Witness ==
    \E r \in Readers :
        /\ Complete(r)
        /\ \A s \in seen[r] : s.stamped >= 1
        /\ \E i \in DOMAIN data[r] : Len(data[r][i].Episodes) >= 2

\* C3: every snapshot shows all Sources after the same number of completed
\* refresh cycles.
C3_RegistryAtomic ==
    \A r \in Readers : \A s, t \in seen[r] : s.stored = t.stored

\* A complete snapshot taken after the second refresh cycle.
C3_Witness ==
    \E r \in Readers :
        /\ Complete(r)
        /\ \A s \in seen[r] : s.stored = 2

\* C4: a manual trigger never runs its pass concurrently with the scheduled
\* one (it holds the mutex for the whole of it, and the scheduler is then
\* outside update()), and "Done" is in its response only after its own pass
\* has visited every Source and released the mutex.
C4_ManualTrigger ==
    \A h \in Handlers :
        /\ InUpdate(h) => (m = h /\ ~InUpdate(Sched))
        /\ (out[h] # <<>> /\ out[h][Len(out[h])] = "Done") =>
               (pc[h] = "idle" /\ todo[h] = {} /\ m # h
                /\ \A p \in Pods : stored[p] >= 1)

\* The trigger has written "Starting update... " and waits at m.Lock() while
\* the scheduled refresh is in the middle of a pod.
C4_Witness ==
    /\ pc["h1"] = "update"
    /\ out["h1"] = <<"pad", "Starting update... ">>
    /\ m = Sched
    /\ pc[Sched] = "store"

\* C5: the stored episode list of every Source has at most 10 entries.
C5_AtMostTen ==
    \A p \in Pods : Len(pods[p].eps) <= MaxEpisodes

\* A pod whose feed has 15 items holds exactly 10 episodes.
C5_Witness ==
    \E p \in Pods :
        /\ served[p] \in Documents
        /\ Len(Items(served[p])) > MaxEpisodes
        /\ Len(pods[p].eps) = MaxEpisodes

\* The episodes stored for p are those of its last fetch: p has been
\* refreshed and no Update of p is under way.
Refreshed(p) == served[p] # NoFetch /\ \A u \in Updaters : cur[u] # p

\* The <pubDate> of the feed item an episode of p was made from (0: none).
PubDate(p, e) ==
    LET its == Items(served[p])
        from == {i \in DOMAIN its : Episode(its[i]) = e}
    IN  IF from = {} THEN 0 ELSE its[CHOOSE i \in from : TRUE].pubDate

\* eps is in non-increasing order of title.
TitleDescending(eps) ==
    \A i, j \in DOMAIN eps : i < j => ~StrGreater(eps[j].name, eps[i].name)

FirstTen(d) == [i \in 1..MaxEpisodes |-> Episode(Items(d)[i])]
\* A document with more than 10 items, listed newest first.
LongNewestFirst(d) ==
    /\ d \in Documents
    /\ Len(Items(d)) > MaxEpisodes
    /\ \A i, j \in DOMAIN Items(d) :
          i < j => Items(d)[i].pubDate > Items(d)[j].pubDate

C8_FailureEmptiesSource ==
    \A p \in Pods :
        (Refreshed(p) /\ served[p] \in Failures) =>
            /\ pods[p].eps = <<>>
            /\ stamped[p] = fetched[p]
            /\ stored[p] = fetched[p]
            /\ pods[p].lastUpdate > 0

\* A pod refreshed for the second time at least, whose last fetch failed.
C8_Witness ==
    \E p \in Pods :
        /\ Refreshed(p)
        /\ served[p] \in Failures
        /\ fetched[p] >= 2
        /\ pods[p].eps = <<>>
        /\ pods[p].lastUpdate > 1

\* u has visited every pod and is about to unlock.
CycleEnd(u) == pc[u] = "range" /\ todo[u] = {}

\* C9: a parser failure never aborts the cycle: at the end of every cycle
\* each Source has been fetched, stamped and stored once per cycle so far,
\* and the list of each is the sort of what its own feed gave.
C9_FailureIsolation ==
    /\ \A p \in Pods : Refreshed(p) => pods[p].eps = SortSlice(URLs(served[p]))
    /\ \A u \in Updaters : CycleEnd(u) =>
          \A p, q \in Pods :
              /\ fetched[p] = stamped[p]
              /\ stamped[p] = stored[p]
              /\ stored[p] = stored[q]

\* The end of a cycle in which one pod's fetch failed and the other pod has
\* the episodes of its own feed.
C9_Witness ==
    \E u \in Updaters : \E p, q \in Pods :
        /\ CycleEnd(u)
        /\ served[p] \in Failures
        /\ served[q] \in Documents
        /\ pods[q].eps # <<>>
        /\ stored[q] = stored[p]

\* C10 (as claimed): every stored Episode has a non-empty media URL.
C10_NonEmptyURL ==
    \A p \in Pods : \A i \in DOMAIN pods[p].eps : pods[p].eps[i].url # <<>>

\* The place of episode e in the list src.
Pos(src, e) == CHOOSE k \in DOMAIN src : src[k] = e

\* C12 (as claimed): the refresh sort is stable: stored episodes with the
\* same title are in the relative order they have in the feed document.
C12_StableSort ==
    \A p \in Pods : Refreshed(p) =>
        LET src == URLs(served[p])
            eps == pods[p].eps
        IN  \A i, j \in DOMAIN eps :
                (i < j /\ eps[i].name = eps[j].name) =>
                    Pos(src, eps[i]) < Pos(src, eps[j])

RECURSIVE SumRuns(_)
SumRuns(S) ==
    IF S = {} THEN 0
    ELSE LET u == CHOOSE v \in S : TRUE IN runs[u] + SumRuns(S \ {u})
\* The number of refresh cycles that have taken the mutex so far.
TotalRuns == SumRuns(Updaters)

\* C14: a cycle calls the parser of every Source exactly once, one Source at
\* a time, and gives the mutex up only after the last one: inside cycle
\* number T every pod visited has had T parser calls and every pod still to
\* visit T - 1, at most one Update is under way, and whenever no cycle holds
\* the mutex every pod has been fetched, stamped and stored T times.
C14_EveryPodOncePerCycle ==
    /\ Cardinality({u \in Updaters : cur[u] # NoPod}) <= 1
    /\ \A u \in Updaters : InUpdate(u) =>
          /\ m = u
          /\ \A p \in Pods :
                fetched[p] = IF p \in todo[u] /\ p # cur[u]
                             THEN TotalRuns - 1 ELSE TotalRuns
    /\ (\A u \in Updaters : ~InUpdate(u)) =>
          \A p \in Pods : /\ fetched[p] = TotalRuns
                          /\ stamped[p] = TotalRuns
                          /\ stored[p] = TotalRuns

\* The second cycle with one pod done and the Update of the other under way.
C14_Witness ==
    \E u \in Updaters : \E p, q \in Pods :
        /\ TotalRuns = 2
        /\ pc[u] = "stamp"
        /\ cur[u] = q
        /\ p # q
        /\ stored[p] = 2
        /\ fetched[q] = 2
        /\ stored[q] = 1

\* C15: sched() starts one refresh at once, before any tick exists, and after
\* that one refresh per tick it has received: the refreshes it has started,
\* plus the one it is about to start, are one more than the ticks received,
\* and no more ticks are received than the timer sent.
C15_SchedOnePerTick ==
    /\ runs[Sched] + (IF pc[Sched] = "update" THEN 1 ELSE 0) = 1 + received
    /\ received <= fired
    /\ runs[Sched] = 0 => (pc[Sched] = "update" /\ ~ticking /\ fired = 0)

\* sched() has run its first refresh and the one for the tick it received,
\* and waits for the next tick.
C15_Witness ==
    /\ runs[Sched] = 2
    /\ received = 1
    /\ pc[Sched] = "recv"
    /\ tickc = 0

\* Nobody but u is past the m.Lock() of update() or of index().
AloneInside(u) ==
    /\ m = u
    /\ \A r \in Readers : ~InIndex(r)
    /\ \A v \in Updaters \ {u} : ~InUpdate(v)

\* C16: while a refresh cycle holds the mutex no reader and no other trigger
\* is past its m.Lock(); and once a parser call hangs the cycle stays where
\* it is, with the mutex, and every reader and trigger stays out for good.
C16_RefreshBlocksAll ==
    /\ [](\A u \in Updaters : InUpdate(u) => AloneInside(u))
    /\ [][\A u \in Updaters :
            pc[u] = "hung" => (pc'[u] = "hung" /\ AloneInside(u)')]_vars

\* A cycle hangs in a parser call while a reader and the other trigger wait
\* at m.Lock().
C16_Witness ==
    \E u \in Updaters : \E v \in Updaters \ {u} : \E r \in Readers :
        /\ pc[u] = "hung"
        /\ pc[v] = "update"
        /\ pc[r] = "lock"

\* C17: a snapshot has one record per Source read so far (per registered
\* Source when complete), each with the Source's episodes in the stored
\* order, title and URL copied, and with the formatted lastUpdate; and no
\* step of index() changes a Source.
C17_SnapshotExport ==
    /\ [](\A r \in Readers : InIndex(r) =>
            /\ Len(data[r]) = Cardinality(Pods \ rest[r])
            /\ {data[r][i].Name : i \in DOMAIN data[r]} = Pods \ rest[r]
            /\ \A i \in DOMAIN data[r] :
                  LET rec == data[r][i]
                      pod == pods[rec.Name]
                  IN  /\ rec.LastUpdate = pod.lastUpdate \div TicksPerMinute
                      /\ Len(rec.Episodes) = Len(pod.eps)
                      /\ \A k \in DOMAIN pod.eps :
                            /\ rec.Episodes[k].Title = pod.eps[k].name
                            /\ rec.Episodes[k].URL = pod.eps[k].url)
    /\ [][(\E r \in Readers : pc'[r] # pc[r] \/ data'[r] # data[r])
             => pods' = pods]_vars

\* A complete snapshot of one pod with episodes and one refreshed pod
\* without.
C17_Witness ==
    \E r \in Readers : \E i, j \in DOMAIN data[r] :
        /\ Complete(r)
        /\ Len(data[r][i].Episodes) >= 2
        /\ data[r][j].Episodes = <<>>
        /\ stored[data[r][j].Name] >= 1

\* C18: the registry has the Sources main() registered, and no others, in
\* every state.
C18_RegistryFixed ==
    DOMAIN pods = Pods

\* Two refresh cycles, one of them a manual trigger that has reported, and a
\* complete snapshot have happened, one pod's last fetch having failed.
C18_Witness ==
    /\ \A p \in Pods : stored[p] >= 2
    /\ \E p \in Pods : served[p] \in Failures
    /\ \E h \in Handlers : out[h] # <<>> /\ out[h][Len(out[h])] = "Done"
    /\ \E r \in Readers : Complete(r)

\* C19: when every parser call returns and m is acquired fairly, every
\* update() that holds m releases it, every /forceupdate request waiting at
\* update() gets its pass and returns, a tick in the channel is received and
\* the scheduler's refresh for it ends, and every index() waiting at
\* m.Lock() takes its snapshot and returns.
C19_Progress ==
    /\ \A u \in Updaters : (m = u) ~> (m # u)
    /\ \A h \in Handlers : (pc[h] = "update") ~> (pc[h] = "idle")
    /\ (tickc = 1) ~> (tickc = 0)
    /\ (pc[Sched] = "update") ~> (pc[Sched] \in {"tick", "recv"})
    /\ \A r \in Readers : (pc[r] = "lock") ~> (pc[r] = "idle")

\* A reader and a manual trigger wait at m.Lock() while the scheduler's
\* refresh for a tick holds m.
C19_Witness ==
    /\ m = Sched
    /\ received = 1
    /\ pc["h1"] = "update"
    /\ pc["r1"] = "lock"

\* C20 (as claimed): a call of enqueue never waits for the queue's mutex
\* while holding it itself (so it returns), and the queue never holds more
\* than m + 1 entries.
C20_EnqueueReturns ==
    /\ \A g \in Loggers : ~(qpc[g] = "deqLock" /\ qs = g)
    /\ Len(ql) <= QueueM + 1

C13_ScrapeJoin ==
    /\ spc # "idle" => \A i \in 1..MaxEntries : task[i] # "none"
    /\ spc = "returned" =>
          /\ \A i \in 1..MaxEntries : task[i] = "done"
          /\ \A i \in 1..MaxEntries :
                entries[i] <=>
                    (\E k \in 1..Len(returned) : returned[k].url = MediaURL(i))
          /\ \A k \in 1..Len(returned) : returned[k].url # <<>>
          /\ Len(returned) = Cardinality({i \in 1..MaxEntries : entries[i]})
          /\ (\A i \in 1..MaxEntries : entries[i]) => Len(returned) = MaxEntries

\* The parser returned for a page with a match on every entry's page, the
\* resolutions having completed in the reverse of the order of the entries.
C13_Witness ==
    /\ spc = "returned"
    /\ \A i \in 1..MaxEntries : entries[i]
    /\ Len(returned) = MaxEntries
    /\ \A k \in 1..MaxEntries : returned[k].url = MediaURL(MaxEntries + 1 - k)

====
